---- MODULE Spec2Model ----
(***************************************************************************)
(* Model of src/lib/hqueue.rs: the HeightQueue (a queue of NodeIds sorted  *)
(* on the height of their nodes) and match_heights.                        *)
(*                                                                         *)
(* The arena (ast::Arena, NodeId::height, NodeId::children) lives outside  *)
(* hqueue.rs; it is modelled from the specification: a finite tree, leaf   *)
(* height 0, internal height 1 + max of the children's heights.            *)
(***************************************************************************)
EXTENDS Integers, Sequences, FiniteSets, TLC

\* Largest number of nodes of the arena the single queue is driven over.
MaxNodes == 5
\* Largest number of nodes of each of the two arenas given to match_heights.
MaxMatchNodes == 3
\* Largest number of calls made on the single queue.
MaxCalls == 4
\* Largest number of nodes of the tree a root-seeded queue is drained over.
MaxTraverseNodes == 6
\* Largest number of nodes of each of the two trees of the matcher's loop.
MaxDriverNodes == 5

VARIABLES
    src,        \* the source arena
    dst,        \* the destination arena
    src_q,      \* HeightQueue<SrcNodeId>.queue
    dst_q,      \* HeightQueue<DstNodeId>.queue
    pc,         \* position in match_heights ("idle", "loop", "done") or in a driving loop
    entry,      \* both queues as they were when match_heights was called
    prev,       \* both queues as they were before the last loop iteration
    iters,      \* loop iterations of the current match_heights call
    last,       \* the last call on src_q: its name, argument, result, queue before
    pushed,     \* handles ever pushed into src_q
    npopped,    \* number of handles pop has returned from src_q
    live,       \* handles pushed into src_q and not popped since
    run,        \* the current run of consecutive pop() calls on src_q
    calls,      \* number of calls made on src_q
    tiers       \* the results of pop_and_push_children a driving loop collected

vars == <<src, dst, src_q, dst_q, pc, entry, prev, iters,
          last, pushed, npopped, live, run, calls, tiers>>

-----------------------------------------------------------------------------
(* The arena: node ids 0..n-1, node 0 the root; arena[i] is the parent of  *)
(* node i (1 <= i <= n-1). Ids are given in breadth-first order, so that    *)
(* each ordered tree of n nodes is one arena.                               *)

ArenasOfSize(n) ==
    {p \in [1..(n - 1) -> 0..(n - 2)] :
        /\ \A i \in 1..(n - 1) : p[i] < i
        /\ \A i \in 1..(n - 2) : p[i] <= p[i + 1]}

Arenas(max) == UNION {ArenasOfSize(n) : n \in 1..max}

Nodes(arena) == 0..Len(arena)

RECURSIVE ChildrenFrom(_, _, _)
ChildrenFrom(arena, parent, i) ==
    IF i > Len(arena) THEN <<>>
    ELSE IF arena[i] = parent THEN <<i>> \o ChildrenFrom(arena, parent, i + 1)
    ELSE ChildrenFrom(arena, parent, i + 1)

\* parent.children(arena), in the arena's order
Children(arena, parent) == ChildrenFrom(arena, parent, 1)

Max(S) == CHOOSE x \in S : \A y \in S : y <= x

Min(S) == CHOOSE x \in S : \A y \in S : x <= y

RECURSIVE Height(_, _)
\* index.height(arena)
Height(arena, index) ==
    LET kids == {i \in 1..Len(arena) : arena[i] = index}
    IN  IF kids = {} THEN 0 ELSE 1 + Max({Height(arena, k) : k \in kids})

Range(s) == {s[i] : i \in 1..Len(s)}

-----------------------------------------------------------------------------
(* PriorityNodeId and HeightQueue                                          *)

PriorityNodeId(index, height) == [index |-> index, height |-> height]

None == <<>>

Some(v) == <<v>>

new == <<>>

\* clear that removes the last entry only
clear_drops_last(queue) ==
    IF Len(queue) = 0 THEN queue ELSE SubSeq(queue, 1, Len(queue) - 1)

clear(queue) == <<>>

is_empty(queue) == Len(queue) = 0

size(queue) == Len(queue)

\* What an index out of range (len() - 1 on an empty Vec) ends in
Panic == <<"panic">>

\* peek_max without the is_empty test
peek_max_unguarded(queue) ==
    IF Len(queue) - 1 < 0 THEN Panic ELSE Some(queue[Len(queue)].height)

\* peek_max reading position 0 instead of the last position
peek_max_first(queue) ==
    IF is_empty(queue) THEN None ELSE Some(queue[1].height)

peek_max(queue) ==
    IF is_empty(queue) THEN None ELSE Some(queue[Len(queue)].height)

\* contains that looks at the last entry only
contains_last(queue, new_node) ==
    /\ Len(queue) > 0
    /\ queue[Len(queue)].index = new_node.index
    /\ queue[Len(queue)].height = new_node.height

\* Vec::contains with the derived PartialEq of PriorityNodeId (index and height)
contains(queue, new_node) ==
    \E i \in 1..Len(queue) :
        queue[i].index = new_node.index /\ queue[i].height = new_node.height

\* Vec::insert(at, x), at counted from 0
insert(queue, at, x) ==
    SubSeq(queue, 1, at) \o <<x>> \o SubSeq(queue, at + 1, Len(queue))

\* pop with the loop left out: only the last entry is removed
pop_one(queue) ==
    IF is_empty(queue) THEN [nodes |-> <<>>, queue |-> queue]
    ELSE [nodes |-> <<queue[Len(queue)].index>>,
          queue |-> SubSeq(queue, 1, Len(queue) - 1)]

RECURSIVE pop_loop(_, _, _)
pop_loop(queue, max, nodes) ==
    IF ~is_empty(queue) /\ queue[Len(queue)].height = max
    THEN pop_loop(SubSeq(queue, 1, Len(queue) - 1), max,
                  Append(nodes, queue[Len(queue)].index))
    ELSE [nodes |-> nodes, queue |-> queue]

pop(queue) ==
    IF is_empty(queue) THEN [nodes |-> <<>>, queue |-> queue]
    ELSE pop_loop(queue, queue[Len(queue)].height, <<>>)

\* Case 4 with the entry inserted at index instead of index + 1
push_middle_at_index(queue, new_node) ==
    LET height == new_node.height
        found == {index \in 0..(Len(queue) - 2) :
                     /\ queue[index + 1].height <= height
                     /\ queue[index + 2].height > height}
    IN  IF found = {} THEN queue
        ELSE insert(queue, Min(found), new_node)

\* Case 4 with a scan that never matches: the loop falls through
push_middle_falls_through(queue, new_node) == queue

\* Case 4 of push: the first index with queue[index] <= height < queue[index + 1]
push_middle(queue, new_node) ==
    LET height == new_node.height
        found == {index \in 0..(Len(queue) - 2) :
                     /\ queue[index + 1].height <= height
                     /\ queue[index + 2].height > height}
    IN  IF found = {} THEN queue
        ELSE insert(queue, Min(found) + 1, new_node)

\* push without Case 1: a held handle is inserted again
push_no_dedup(queue, index, arena) ==
    LET height == Height(arena, index)
        new_node == PriorityNodeId(index, height)
    IN  IF is_empty(queue) \/ height <= queue[1].height
             THEN insert(queue, 0, new_node)
        ELSE IF height >= queue[Len(queue)].height
             THEN Append(queue, new_node)
        ELSE push_middle(queue, new_node)

push(queue, index, arena) ==
    LET height == Height(arena, index)
        new_node == PriorityNodeId(index, height)
    IN  IF contains(queue, new_node) THEN queue
        ELSE IF is_empty(queue) \/ height <= queue[1].height
             THEN insert(queue, 0, new_node)
        ELSE IF height >= queue[Len(queue)].height
             THEN Append(queue, new_node)
        ELSE push_middle(queue, new_node)

RECURSIVE push_all(_, _, _)
push_all(queue, children, arena) ==
    IF children = <<>> THEN queue
    ELSE push_all(push(queue, Head(children), arena), Tail(children), arena)

\* push_children that pushes the first child only
push_children_first(queue, parent, arena) ==
    LET children == Children(arena, parent)
    IN  IF children = <<>> THEN queue ELSE push(queue, Head(children), arena)

push_children(queue, parent, arena) ==
    push_all(queue, Children(arena, parent), arena)

RECURSIVE push_children_of_all(_, _, _)
push_children_of_all(queue, tallest, arena) ==
    IF tallest = <<>> THEN queue
    ELSE push_children_of_all(push_children(queue, Head(tallest), arena),
                              Tail(tallest), arena)

\* pop_and_push_children that reads the tallest tier without removing it
pop_and_push_children_no_pop(queue, arena) ==
    LET tallest == pop(queue).nodes
    IN  IF ~is_empty(tallest)
        THEN [ret |-> Some(tallest),
              queue |-> push_children_of_all(queue, tallest, arena)]
        ELSE [ret |-> None, queue |-> queue]

pop_and_push_children(queue, arena) ==
    LET popped == pop(queue)
        tallest == popped.nodes
    IN  IF ~is_empty(tallest)
        THEN [ret |-> Some(tallest),
              queue |-> push_children_of_all(popped.queue, tallest, arena)]
        ELSE [ret |-> None, queue |-> popped.queue]

unwrap(option) == option[1]

\* The loop condition with > in place of !=
match_cond_src_taller(sq, dq) ==
    /\ ~is_empty(sq)
    /\ ~is_empty(dq)
    /\ unwrap(peek_max(sq)) > unwrap(peek_max(dq))

\* The loop condition of match_heights
match_cond(sq, dq) ==
    /\ ~is_empty(sq)
    /\ ~is_empty(dq)
    /\ unwrap(peek_max(sq)) # unwrap(peek_max(dq))

\* The loop body with the branches swapped: the shorter side is expanded
match_step_swapped(sq, sa, dq, da) ==
    IF unwrap(peek_max(sq)) < unwrap(peek_max(dq))
    THEN [src_q |-> pop_and_push_children(sq, sa).queue, dst_q |-> dq]
    ELSE [src_q |-> sq, dst_q |-> pop_and_push_children(dq, da).queue]

\* The loop body of match_heights
match_step(sq, sa, dq, da) ==
    IF unwrap(peek_max(sq)) > unwrap(peek_max(dq))
    THEN [src_q |-> pop_and_push_children(sq, sa).queue, dst_q |-> dq]
    ELSE [src_q |-> sq, dst_q |-> pop_and_push_children(dq, da).queue]

RECURSIVE match_heights(_, _, _, _)
\* A whole call of match_heights
match_heights(sq, sa, dq, da) ==
    IF match_cond(sq, dq)
    THEN LET r == match_step(sq, sa, dq, da)
         IN  match_heights(r.src_q, sa, r.dst_q, da)
    ELSE [src_q |-> sq, dst_q |-> dq]

-----------------------------------------------------------------------------
(* Observations on a queue                                                 *)

Handles(queue) == {queue[i].index : i \in 1..Len(queue)}

RECURSIVE Flatten(_)
Flatten(ss) == IF ss = <<>> THEN <<>> ELSE Head(ss) \o Flatten(Tail(ss))

RECURSIVE ChildrenOfAll(_, _)
ChildrenOfAll(arena, nodes) ==
    IF nodes = <<>> THEN {}
    ELSE Range(Children(arena, Head(nodes))) \cup ChildrenOfAll(arena, Tail(nodes))

NoRun(queue) == [start |-> Handles(queue), out |-> <<>>]

NoMatch == [src_q |-> <<>>, dst_q |-> <<>>]

NoTiers == [src |-> <<>>, dst |-> <<>>]

-----------------------------------------------------------------------------
(* Spec: one queue over the source arena, driven by any sequence of calls. *)

Init ==
    /\ src \in Arenas(MaxNodes)
    /\ dst = <<>>
    /\ src_q = new
    /\ dst_q = new
    /\ pc = "idle"
    /\ entry = NoMatch
    /\ prev = NoMatch
    /\ iters = 0
    /\ last = [op |-> "new", arg |-> -1, ret |-> <<>>, pre |-> <<>>]
    /\ pushed = {}
    /\ npopped = 0
    /\ live = {}
    /\ run = NoRun(<<>>)
    /\ calls = 0
    /\ tiers = NoTiers

Frame == UNCHANGED <<src, dst, dst_q, pc, entry, prev, iters, tiers>>

Push(index) ==
    /\ calls < MaxCalls
    /\ src_q' = push(src_q, index, src)
    /\ last' = [op |-> "push", arg |-> index, ret |-> <<>>, pre |-> src_q]
    /\ pushed' = pushed \cup {index}
    /\ live' = live \cup {index}
    /\ run' = NoRun(src_q')
    /\ calls' = calls + 1
    /\ UNCHANGED npopped
    /\ Frame

PushChildren(parent) ==
    /\ calls < MaxCalls
    /\ src_q' = push_children(src_q, parent, src)
    /\ last' = [op |-> "push_children", arg |-> parent, ret |-> <<>>, pre |-> src_q]
    /\ pushed' = pushed \cup Range(Children(src, parent))
    /\ live' = live \cup Range(Children(src, parent))
    /\ run' = NoRun(src_q')
    /\ calls' = calls + 1
    /\ UNCHANGED npopped
    /\ Frame

Pop ==
    /\ calls < MaxCalls
    /\ LET r == pop(src_q)
       IN  /\ src_q' = r.queue
           /\ last' = [op |-> "pop", arg |-> -1, ret |-> r.nodes, pre |-> src_q]
           /\ npopped' = npopped + Len(r.nodes)
           /\ live' = live \ Range(r.nodes)
           /\ run' = IF is_empty(src_q) THEN run
                     ELSE [run EXCEPT !.out = Append(@, r.nodes)]
    /\ calls' = calls + 1
    /\ UNCHANGED pushed
    /\ Frame

PopAndPushChildren ==
    /\ calls < MaxCalls
    /\ LET r == pop_and_push_children(src_q, src)
           tallest == IF r.ret = None THEN <<>> ELSE r.ret[1]
       IN  /\ src_q' = r.queue
           /\ last' = [op |-> "pop_and_push_children", arg |-> -1,
                       ret |-> r.ret, pre |-> src_q]
           /\ npopped' = npopped + Len(tallest)
           /\ pushed' = pushed \cup ChildrenOfAll(src, tallest)
           /\ live' = (live \ Range(tallest)) \cup ChildrenOfAll(src, tallest)
           /\ run' = NoRun(src_q')
    /\ calls' = calls + 1
    /\ Frame

PeekMax ==
    /\ calls < MaxCalls
    /\ last' = [op |-> "peek_max", arg |-> -1, ret |-> peek_max(src_q), pre |-> src_q]
    /\ calls' = calls + 1
    /\ UNCHANGED <<src_q, pushed, npopped, live, run>>
    /\ Frame

Clear ==
    /\ calls < MaxCalls
    /\ src_q' = clear(src_q)
    /\ last' = [op |-> "clear", arg |-> -1, ret |-> <<>>, pre |-> src_q]
    /\ live' = {}
    /\ run' = NoRun(src_q')
    /\ calls' = calls + 1
    /\ UNCHANGED <<pushed, npopped>>
    /\ Frame

Next ==
    \/ \E index \in Nodes(src) : Push(index)
    \/ \E parent \in Nodes(src) : PushChildren(parent)
    \/ Pop
    \/ PopAndPushChildren
    \/ PeekMax
    \/ Clear

Spec == Init /\ [][Next]_vars

\* The same queue driven without clear().
NextNoClear ==
    \/ \E index \in Nodes(src) : Push(index)
    \/ \E parent \in Nodes(src) : PushChildren(parent)
    \/ Pop
    \/ PopAndPushChildren

SpecNoClear == Init /\ [][NextNoClear]_vars

-----------------------------------------------------------------------------
(* SpecMatch: two queues, each over its own arena, filled by pushes and    *)
(* then handed to match_heights, one loop iteration per step.              *)

InitMatch ==
    /\ src \in Arenas(MaxMatchNodes)
    /\ dst \in Arenas(MaxMatchNodes)
    /\ src_q = new
    /\ dst_q = new
    /\ pc = "idle"
    /\ entry = NoMatch
    /\ prev = NoMatch
    /\ iters = 0
    /\ last = [op |-> "new", arg |-> -1, ret |-> <<>>, pre |-> <<>>]
    /\ pushed = {}
    /\ npopped = 0
    /\ live = {}
    /\ run = NoRun(<<>>)
    /\ calls = 0
    /\ tiers = NoTiers

History == <<last, pushed, npopped, live, run, calls, tiers>>

SrcPush(index) ==
    /\ pc # "loop"
    /\ src_q' = push(src_q, index, src)
    /\ pc' = "idle"
    /\ entry' = NoMatch
    /\ prev' = NoMatch
    /\ iters' = 0
    /\ UNCHANGED <<src, dst, dst_q, History>>

DstPush(index) ==
    /\ pc # "loop"
    /\ dst_q' = push(dst_q, index, dst)
    /\ pc' = "idle"
    /\ entry' = NoMatch
    /\ prev' = NoMatch
    /\ iters' = 0
    /\ UNCHANGED <<src, dst, src_q, History>>

\* match_heights is called
MatchBegin ==
    /\ pc # "loop"
    /\ pc' = "loop"
    /\ entry' = [src_q |-> src_q, dst_q |-> dst_q]
    /\ prev' = [src_q |-> src_q, dst_q |-> dst_q]
    /\ iters' = 0
    /\ UNCHANGED <<src, dst, src_q, dst_q, History>>

\* one iteration of the while loop
MatchIter ==
    /\ pc = "loop"
    /\ match_cond(src_q, dst_q)
    /\ LET r == match_step(src_q, src, dst_q, dst)
       IN  /\ src_q' = r.src_q
           /\ dst_q' = r.dst_q
    /\ prev' = [src_q |-> src_q, dst_q |-> dst_q]
    /\ iters' = iters + 1
    /\ UNCHANGED <<src, dst, pc, entry, History>>

\* the loop condition is false: match_heights returns
MatchEnd ==
    /\ pc = "loop"
    /\ ~match_cond(src_q, dst_q)
    /\ pc' = "done"
    /\ UNCHANGED <<src, dst, src_q, dst_q, entry, prev, iters, History>>

NextMatch ==
    \/ \E index \in Nodes(src) : SrcPush(index)
    \/ \E index \in Nodes(dst) : DstPush(index)
    \/ MatchBegin
    \/ MatchIter
    \/ MatchEnd

SpecMatch == InitMatch /\ [][NextMatch]_vars

-----------------------------------------------------------------------------
(* SpecTraverse: one queue seeded with the root of its tree and drained by *)
(* pop_and_push_children until it is empty.                                *)

InitTraverse ==
    /\ src \in Arenas(MaxTraverseNodes)
    /\ dst = <<>>
    /\ src_q = new
    /\ dst_q = new
    /\ pc = "idle"
    /\ entry = NoMatch
    /\ prev = NoMatch
    /\ iters = 0
    /\ last = [op |-> "new", arg |-> -1, ret |-> <<>>, pre |-> <<>>]
    /\ pushed = {}
    /\ npopped = 0
    /\ live = {}
    /\ run = NoRun(<<>>)
    /\ calls = 0
    /\ tiers = NoTiers

Calls == <<entry, prev, iters, last, pushed, npopped, live, run, calls>>

\* queue.push(root)
TraverseSeed ==
    /\ pc = "idle"
    /\ src_q' = push(src_q, 0, src)
    /\ pc' = "drain"
    /\ UNCHANGED <<src, dst, dst_q, tiers, Calls>>

\* one pop_and_push_children of the draining loop
TraverseStep ==
    /\ pc = "drain"
    /\ ~is_empty(src_q)
    /\ LET r == pop_and_push_children(src_q, src)
       IN  /\ src_q' = r.queue
           /\ tiers' = [tiers EXCEPT !.src = Append(@, r.ret)]
    /\ UNCHANGED <<src, dst, dst_q, pc, Calls>>

\* the queue is empty: the draining loop ends
TraverseEnd ==
    /\ pc = "drain"
    /\ is_empty(src_q)
    /\ pc' = "done"
    /\ UNCHANGED <<src, dst, src_q, dst_q, tiers, Calls>>

NextTraverse ==
    \/ TraverseSeed
    \/ TraverseStep
    \/ TraverseEnd

SpecTraverse == InitTraverse /\ [][NextTraverse]_vars

-----------------------------------------------------------------------------
(* SpecDriver: the matcher's driving loop. Each queue is seeded with the   *)
(* root of its tree; a round is match_heights, then pop_and_push_children  *)
(* on the source side, then on the destination side.                       *)

InitDriver ==
    /\ src \in Arenas(MaxDriverNodes)
    /\ dst \in Arenas(MaxDriverNodes)
    /\ src_q = new
    /\ dst_q = new
    /\ pc = "idle"
    /\ entry = NoMatch
    /\ prev = NoMatch
    /\ iters = 0
    /\ last = [op |-> "new", arg |-> -1, ret |-> <<>>, pre |-> <<>>]
    /\ pushed = {}
    /\ npopped = 0
    /\ live = {}
    /\ run = NoRun(<<>>)
    /\ calls = 0
    /\ tiers = NoTiers

\* src_q.push(root of src)
DriverSeedSrc ==
    /\ pc = "idle"
    /\ src_q' = push(src_q, 0, src)
    /\ pc' = "seed_dst"
    /\ UNCHANGED <<src, dst, dst_q, tiers, Calls>>

\* dst_q.push(root of dst)
DriverSeedDst ==
    /\ pc = "seed_dst"
    /\ dst_q' = push(dst_q, 0, dst)
    /\ pc' = "match"
    /\ UNCHANGED <<src, dst, src_q, tiers, Calls>>

\* match_heights(src_q, src, dst_q, dst)
DriverMatch ==
    /\ pc = "match"
    /\ ~(is_empty(src_q) /\ is_empty(dst_q))
    /\ LET r == match_heights(src_q, src, dst_q, dst)
       IN  /\ src_q' = r.src_q
           /\ dst_q' = r.dst_q
    /\ pc' = "pop_src"
    /\ UNCHANGED <<src, dst, tiers, Calls>>

\* src_q.pop_and_push_children(src)
DriverPopSrc ==
    /\ pc = "pop_src"
    /\ LET r == pop_and_push_children(src_q, src)
       IN  /\ src_q' = r.queue
           /\ tiers' = [tiers EXCEPT !.src = Append(@, r.ret)]
    /\ pc' = "pop_dst"
    /\ UNCHANGED <<src, dst, dst_q, Calls>>

\* dst_q.pop_and_push_children(dst)
DriverPopDst ==
    /\ pc = "pop_dst"
    /\ LET r == pop_and_push_children(dst_q, dst)
       IN  /\ dst_q' = r.queue
           /\ tiers' = [tiers EXCEPT !.dst = Append(@, r.ret)]
    /\ pc' = "match"
    /\ UNCHANGED <<src, dst, src_q, Calls>>

\* both queues are empty: the loop ends
DriverEnd ==
    /\ pc = "match"
    /\ is_empty(src_q)
    /\ is_empty(dst_q)
    /\ pc' = "done"
    /\ UNCHANGED <<src, dst, src_q, dst_q, tiers, Calls>>

NextDriver ==
    \/ DriverSeedSrc
    \/ DriverSeedDst
    \/ DriverMatch
    \/ DriverPopSrc
    \/ DriverPopDst
    \/ DriverEnd

SpecDriver == InitDriver /\ [][NextDriver]_vars

-----------------------------------------------------------------------------
(* Properties of the single queue                                          *)

\* The greatest height, in the arena, of the handles of a non-empty queue
MaxHeight(arena, queue) == Max({Height(arena, h) : h \in Handles(queue)})

\* The handles of a queue whose height in the arena is m
Tier(arena, queue, m) == {h \in Handles(queue) : Height(arena, h) = m}

NoDuplicates(s) == \A i, j \in 1..Len(s) : s[i] = s[j] => i = j

\* C1 (Sortedness): in every state reachable by push, push_children, pop,
\* pop_and_push_children and clear, the heights of the entries read from
\* position 0 to the last position are non-decreasing.
C1_Sorted ==
    \A i, j \in 1..Len(src_q) : i < j => src_q[i].height <= src_q[j].height

\* A push that took Case 4 (strictly between the first and the last height).
C1_Witness ==
    /\ last.op = "push"
    /\ Len(last.pre) >= 2
    /\ last.arg \notin Handles(last.pre)
    /\ Height(src, last.arg) > last.pre[1].height
    /\ Height(src, last.arg) < last.pre[Len(last.pre)].height
    /\ Len(src_q) = Len(last.pre) + 1

\* C2 (Set semantics): no node handle occurs in the queue more than once.
C2_NoHandleTwice ==
    \A i, j \in 1..Len(src_q) : src_q[i].index = src_q[j].index => i = j

\* A handle that was popped earlier and is held again, pushed while held.
C2_Witness ==
    /\ last.op \in {"push", "push_children"}
    /\ npopped > 0
    /\ Len(src_q) >= 2
    /\ \/ last.op = "push" /\ last.arg \in Handles(last.pre)
       \/ /\ last.op = "push_children"
          /\ Range(Children(src, last.arg)) \cap Handles(last.pre) # {}

\* C3 (Dedup): push of a handle already held leaves size() and the whole
\* entry sequence as they were; push(h) twice equals push(h) once.
C3_PushIdempotent ==
    (last.op = "push" /\ last.arg \in Handles(last.pre))
        => (src_q = last.pre /\ size(src_q) = size(last.pre))

\* A push of a handle held somewhere before the last position.
C3_Witness ==
    /\ last.op = "push"
    /\ Len(last.pre) >= 2
    /\ last.arg \in Handles(SubSeq(last.pre, 1, Len(last.pre) - 1))

\* C4 (Pop-tier completeness): pop() on a non-empty queue returns exactly the
\* handles whose height equals the maximum held before, each once, and leaves
\* the other entries unchanged in the same order.
C4_PopTier ==
    (last.op = "pop" /\ ~is_empty(last.pre)) =>
        LET m == MaxHeight(src, last.pre)
        IN  /\ Range(last.ret) = Tier(src, last.pre, m)
            /\ NoDuplicates(last.ret)
            /\ src_q = SelectSeq(last.pre, LAMBDA e : Height(src, e.index) # m)
            /\ Tier(src, src_q, m) = {}

\* A pop that returned a tier of two or more handles and left entries behind.
C4_Witness ==
    /\ last.op = "pop"
    /\ Len(last.ret) >= 2
    /\ ~is_empty(src_q)

\* C9 (Pop monotonicity): over a run of pop() calls with no push in between,
\* the returned tiers have strictly decreasing heights, and the handles
\* returned together with those still held are exactly the handles held at
\* the start of the run, each once.
C9_PopRun ==
    LET out == run.out
        flat == Flatten(out)
    IN  /\ \A i \in 1..Len(out) :
              /\ out[i] # <<>>
              /\ \A a, b \in Range(out[i]) : Height(src, a) = Height(src, b)
        /\ \A i, j \in 1..Len(out) : i < j =>
              \A a \in Range(out[i]), b \in Range(out[j]) :
                  Height(src, a) > Height(src, b)
        /\ NoDuplicates(flat)
        /\ Range(flat) \cup Handles(src_q) = run.start
        /\ Range(flat) \cap Handles(src_q) = {}
        /\ is_empty(src_q) => Range(flat) = run.start

\* A queue of three or more handles drained by two or more pops.
C9_Witness ==
    /\ Len(run.out) >= 2
    /\ is_empty(src_q)
    /\ Cardinality(run.start) >= 3

\* C10 (Size accounting), as claimed: size() equals the number of distinct
\* handles ever pushed minus the number of handles popped.
C10_SizeEverPushed == size(src_q) = Cardinality(pushed) - npopped

\* C10 as amended: size() equals the number of distinct handles pushed and
\* not popped since their latest push.
C10_SizeLive == size(src_q) = Cardinality(live)

\* A handle pushed again after it was popped.
C10_Witness ==
    /\ last.op = "push"
    /\ last.arg \in pushed
    /\ last.arg \notin Handles(last.pre)
    /\ size(src_q) = size(last.pre) + 1
    /\ npopped > 0

-----------------------------------------------------------------------------
(* Properties of match_heights                                             *)

Root(arena) == PriorityNodeId(0, Height(arena, 0))

\* Both queues held only the root of their tree when match_heights was called.
RootSeeded ==
    /\ entry.src_q = <<Root(src)>>
    /\ entry.dst_q = <<Root(dst)>>

BothHeldOnEntry == ~is_empty(entry.src_q) /\ ~is_empty(entry.dst_q)

Abs(n) == IF n < 0 THEN -n ELSE n

\* C5 (Synchronizer convergence): from two queues seeded with the roots only,
\* match_heights ends after |H_src - H_dst| iterations at most; at its end, if
\* both queues are non-empty their peek_max() are equal and equal to
\* min(H_src, H_dst), and if the maxima are not equal a queue is empty.
C5_Convergence ==
    (pc \in {"loop", "done"} /\ RootSeeded) =>
        /\ iters <= Abs(Height(src, 0) - Height(dst, 0))
        /\ pc = "done" =>
              /\ (~is_empty(src_q) /\ ~is_empty(dst_q)) =>
                    /\ peek_max(src_q) = peek_max(dst_q)
                    /\ peek_max(src_q) = Some(Min({Height(src, 0), Height(dst, 0)}))
              /\ peek_max(src_q) # peek_max(dst_q) =>
                    (is_empty(src_q) \/ is_empty(dst_q))

\* match_heights returned after expanding the taller root-seeded side twice.
C5_Witness ==
    /\ pc = "done"
    /\ RootSeeded
    /\ iters >= 2
    /\ Height(src, 0) # Height(dst, 0)

\* C6 (arbitrary non-empty queues): after match_heights on two non-empty
\* queues both are still non-empty and both peek_max() equal the smaller of
\* the two maxima held on entry.
C6_ArbitraryQueues ==
    (pc = "done" /\ BothHeldOnEntry) =>
        LET m == Min({MaxHeight(src, entry.src_q), MaxHeight(dst, entry.dst_q)})
        IN  /\ ~is_empty(src_q)
            /\ ~is_empty(dst_q)
            /\ peek_max(src_q) = Some(m)
            /\ peek_max(dst_q) = Some(m)

\* match_heights returned, after iterating, on queues of several handles that
\* were not the root-seeded ones.
C6_Witness ==
    /\ pc = "done"
    /\ iters >= 1
    /\ Len(entry.src_q) >= 2
    /\ Len(entry.dst_q) >= 2
    /\ ~RootSeeded

\* C7 (Termination): the loop runs at most as many iterations as the two
\* maxima differ on entry (none if a queue is empty), and every iteration
\* strictly reduces the maximum of the side that had the strictly greater
\* maximum, or empties that side.
C7_Termination ==
    (pc \in {"loop", "done"}) =>
        /\ iters <= IF BothHeldOnEntry
                    THEN Abs(MaxHeight(src, entry.src_q) - MaxHeight(dst, entry.dst_q))
                    ELSE 0
        /\ iters >= 1 =>
              LET ps == MaxHeight(src, prev.src_q)
                  pd == MaxHeight(dst, prev.dst_q)
              IN  /\ ps # pd
                  /\ ps > pd => (is_empty(src_q) \/ MaxHeight(src, src_q) < ps)
                  /\ pd > ps => (is_empty(dst_q) \/ MaxHeight(dst, dst_q) < pd)

\* A second iteration has run on a side holding several handles.
C7_Witness ==
    /\ pc = "loop"
    /\ iters >= 2
    /\ Len(prev.src_q) >= 2
    /\ MaxHeight(src, prev.src_q) > MaxHeight(dst, prev.dst_q)

\* C8 (Frame): an iteration leaves the queue that did not have the strictly
\* greater maximum as it was; over the whole call the queue whose maximum on
\* entry is smaller than or equal to the other's keeps its entries and their
\* order, and neither queue changes when the maxima are equal or a queue is
\* empty on entry.
C8_Frame ==
    (pc \in {"loop", "done"}) =>
        /\ iters >= 1 =>
              LET ps == MaxHeight(src, prev.src_q)
                  pd == MaxHeight(dst, prev.dst_q)
              IN  /\ ps > pd => (dst_q = prev.dst_q /\ src_q # prev.src_q)
                  /\ pd > ps => (src_q = prev.src_q /\ dst_q # prev.dst_q)
        /\ BothHeldOnEntry =>
              LET es == MaxHeight(src, entry.src_q)
                  ed == MaxHeight(dst, entry.dst_q)
              IN  /\ es <= ed => src_q = entry.src_q
                  /\ ed <= es => dst_q = entry.dst_q
        /\ ~BothHeldOnEntry => (src_q = entry.src_q /\ dst_q = entry.dst_q)

\* match_heights returned after expanding the destination side twice next to
\* a source queue of several handles.
C8_Witness ==
    /\ pc = "done"
    /\ iters >= 2
    /\ Len(entry.src_q) >= 2
    /\ MaxHeight(src, entry.src_q) < MaxHeight(dst, entry.dst_q)
    /\ src_q = entry.src_q

-----------------------------------------------------------------------------
(* Further properties of the single queue                                  *)

\* C11 (Expansion correctness): on a queue holding only the root,
\* pop_and_push_children returns a present result holding exactly the root,
\* and the queue then holds exactly the root's children, each once.
C11_Expansion ==
    (last.op = "pop_and_push_children" /\ last.pre = <<Root(src)>>) =>
        /\ last.ret = Some(<<0>>)
        /\ Handles(src_q) = Range(Children(src, 0))
        /\ size(src_q) = Len(Children(src, 0))

\* The root of a tree with two or more children of different heights expanded.
C11_Witness ==
    /\ last.op = "pop_and_push_children"
    /\ last.pre = <<Root(src)>>
    /\ Len(src_q) >= 2
    /\ src_q[1].height < src_q[Len(src_q)].height

\* C12 (Empty-queue operations are total): on an empty queue pop() returns an
\* empty list, pop_and_push_children and peek_max() return None, none of them
\* fails, and each leaves the queue empty.
C12_EmptyTotal ==
    /\ is_empty(src_q) =>
          /\ peek_max(src_q) = None
          /\ pop(src_q) = [nodes |-> <<>>, queue |-> <<>>]
          /\ pop_and_push_children(src_q, src) = [ret |-> None, queue |-> <<>>]
    /\ (last.op \in {"pop", "pop_and_push_children", "peek_max"}
          /\ is_empty(last.pre)) =>
          /\ is_empty(src_q)
          /\ last.ret # Panic
          /\ last.ret = IF last.op = "pop" THEN <<>> ELSE None

\* peek_max() was called on a queue emptied by pop.
C12_Witness ==
    /\ last.op = "peek_max"
    /\ is_empty(last.pre)
    /\ npopped > 0

Orders(s) == {[i \in 1..Len(s) |-> s[p[i]]] : p \in Permutations(1..Len(s))}

HeightsOf(queue) == [i \in 1..Len(queue) |-> queue[i].height]

SameSortedState(a, b) == Handles(a) = Handles(b) /\ HeightsOf(a) = HeightsOf(b)

\* C14 (Order independence of push_children): whatever order the children of
\* a parent are enumerated in, push_children ends in the same set of handles
\* and the same sequence of heights.
C14_OrderIndependent ==
    last.op = "push_children" =>
        \A children \in Orders(Children(src, last.arg)) :
            SameSortedState(push_all(last.pre, children, src), src_q)

\* push_children has pushed children of different heights into a queue that
\* held other handles, and another enumeration order places the handles
\* differently.
C14_Witness ==
    /\ last.op = "push_children"
    /\ ~is_empty(last.pre)
    /\ Len(src_q) >= Len(last.pre) + 2
    /\ \E a, b \in Range(Children(src, last.arg)) : Height(src, a) # Height(src, b)
    /\ \E children \in Orders(Children(src, last.arg)) :
          push_all(last.pre, children, src) # src_q

\* C15 (clear and resumability): clear() leaves the queue empty (is_empty()
\* true, size() 0, peek_max() absent), and a push into an emptied queue
\* inserts its handle as into a new queue, whatever was held or popped before.
C15_ClearResumable ==
    /\ last.op = "clear" =>
          /\ is_empty(src_q)
          /\ size(src_q) = 0
          /\ peek_max(src_q) = None
    /\ is_empty(src_q) =>
          /\ src_q = new
          /\ \A h \in Nodes(src) :
                push(src_q, h, src) = <<PriorityNodeId(h, Height(src, h))>>
    /\ (last.op = "push" /\ is_empty(last.pre)) =>
          src_q = <<PriorityNodeId(last.arg, Height(src, last.arg))>>

\* A push into a queue that clear() emptied of handles pushed earlier.
C15_Witness ==
    /\ last.op = "push"
    /\ is_empty(last.pre)
    /\ npopped = 0
    /\ Cardinality(pushed) >= 2
    /\ size(src_q) = 1

C19_PushInserts ==
    (last.op = "push" /\ last.arg \notin Handles(last.pre)) =>
        /\ size(src_q) = size(last.pre) + 1
        /\ last.arg \in Handles(src_q)
        /\ SelectSeq(src_q, LAMBDA e : e.index # last.arg) = last.pre

\* A new handle went in strictly between the first and the last position.
C19_Witness ==
    /\ last.op = "push"
    /\ last.arg \notin Handles(last.pre)
    /\ Len(last.pre) >= 2
    /\ \E k \in 2..(Len(src_q) - 1) :
          /\ src_q[k].index = last.arg
          /\ src_q[k - 1].height <= src_q[k].height
          /\ src_q[k].height < src_q[k + 1].height
          /\ src_q[1].height < src_q[k].height

-----------------------------------------------------------------------------
(* Properties of the driving loops                                         *)

\* The handles of the results of pop_and_push_children, in the order returned
Emitted(results) ==
    Flatten([i \in 1..Len(results) |->
                IF results[i] = None THEN <<>> ELSE unwrap(results[i])])

\* C16 (Traversal invariant): in every round of the matcher's loop in which
\* both sides return a non-empty tier, all handles of the source tier and all
\* handles of the destination tier have the same height.
C16_EqualHeightTiers ==
    \A i \in 1..Len(tiers.dst) :
        (tiers.src[i] # None /\ tiers.dst[i] # None) =>
            /\ unwrap(tiers.src[i]) # <<>>
            /\ unwrap(tiers.dst[i]) # <<>>
            /\ \A a \in Range(unwrap(tiers.src[i])), b \in Range(unwrap(tiers.dst[i])) :
                  Height(src, a) = Height(dst, b)

\* The loop ran to its end over two trees of different heights, with two or
\* more rounds in which both sides returned a tier, one of several handles.
C16_Witness ==
    /\ pc = "done"
    /\ Height(src, 0) # Height(dst, 0)
    /\ Cardinality({i \in 1..Len(tiers.dst) :
                       tiers.src[i] # None /\ tiers.dst[i] # None}) >= 2
    /\ \E i \in 1..Len(tiers.dst) :
          tiers.dst[i] # None /\ Len(unwrap(tiers.dst[i])) >= 2

\* C17 (Complete top-down traversal): a queue seeded with the root has
\* peek_max() equal to the root's height; the first tier returned is the root;
\* draining it by pop_and_push_children ends after at most height + 1 tiers,
\* the tiers have strictly decreasing heights, and at the end every node of
\* the tree has been emitted exactly once.
C17_Traversal ==
    LET out == tiers.src
        flat == Emitted(out)
    IN  /\ (pc = "drain" /\ out = <<>>) => peek_max(src_q) = Some(Height(src, 0))
        /\ Len(out) >= 1 => out[1] = Some(<<0>>)
        /\ Len(out) <= Height(src, 0) + 1
        /\ \A i \in 1..Len(out) :
              /\ out[i] # None
              /\ unwrap(out[i]) # <<>>
              /\ \A a, b \in Range(unwrap(out[i])) : Height(src, a) = Height(src, b)
        /\ \A i, j \in 1..Len(out) : i < j =>
              \A a \in Range(unwrap(out[i])), b \in Range(unwrap(out[j])) :
                  Height(src, a) > Height(src, b)
        /\ NoDuplicates(flat)
        /\ pc = "done" => (is_empty(src_q) /\ Range(flat) = Nodes(src))

\* A tree of five nodes or more was drained in three tiers or more, one of
\* them of several handles.
C17_Witness ==
    /\ pc = "done"
    /\ Len(tiers.src) >= 3
    /\ Len(src) + 1 >= 5
    /\ \E i \in 1..Len(tiers.src) : Len(unwrap(tiers.src[i])) >= 2

====
